---- MODULE Spec2Model ----
(***************************************************************************)
(* Model of lit-review-search: the resolution engine and the pipeline of  *)
(* run.py, the citation relationship engine (citation_filtering.py), the   *)
(* publication records (publication.py and its adapters), their cache      *)
(* directories, Citation edges, co-citation tallies and remote requests.   *)
(*                                                                         *)
(* The source adapters (DBLP, CrossRef, Scopus) are the environment: what  *)
(* each remote lookup answers is fixed when a run starts (the w*           *)
(* variables) and the orchestration code of run.py is translated step by   *)
(* step against those answers.                                             *)
(***************************************************************************)
EXTENDS Integers, Sequences, FiniteSets, TLC

VARIABLES
    seed,           \* the (doi, eid, title) arguments of create_publication
    wDblpSearch,    \* answer of DBLPPublication.search_by_title, per title
    wScopusSearch,  \* answer of ScopusPublication.search_by_title, per title
    wCrossref,      \* answer of CrossRefPublication(doi), per DOI
    wScopus,        \* answer of ScopusPublication(eid), per EID
    doi, eid, title, dblp,   \* the locals of create_publication
    strategies,     \* the list search_strategies, built once (run.py:164)
    idx,            \* position of the for loop in search_strategies (1-based)
    calls,          \* adapter invocations made so far, in order
    lastPub,        \* pub of the latest iteration (run.py:176)
    lastOk,         \* verdict of has_citations on lastPub (run.py:178)
    result,         \* what create_publication returned / raised
    pc,             \* "loop" while iterating, "done" after return or raise
    oRefs,          \* what OpenCitations answers for the record's references
    oCites,         \* what OpenCitations answers for the record's citations
    pRefs,          \* the record's _references list
    pCites,         \* the record's _citations list
    co_citing_counts,   \* the record's co-citing tallies (id -> count)
    co_cited_counts,    \* the record's co-cited tallies (id -> count)
    relCall,        \* the latest call on the record: operation, shared, value
    relPrev,        \* the call before it
    pubRec,         \* the record the latest constructor call produced
    firstLoad,      \* identifier and metadata of the record built before it
    fetches,        \* edge fetches issued for pubRec since it was built
    pubOp,          \* the latest operation on a record and how it ended
    pubsCsv,        \* the publication summary CSV file
    envKeys,        \* the API keys of the environment (after load_dotenv)
    seedsFile,      \* the seed input file seeds.csv
    relatedFile,    \* the related-IDs output file
    before,         \* the two output files as the run found them
    phase,          \* where the run of run.py is
    seeds,          \* main: the list read_seed_csv returned
    seedIdx,        \* main: position of the seed loop (1-based)
    all_related_ids,  \* main: the set of related identifiers
    pendingIds,     \* main: related identifiers the last loop has not reached
    metaRequests,   \* metadata requests issued so far, per DOI
    dirIds,         \* create_pub_directory: the identifier of each record
    pubDirs,         \* create_pub_directory: the directory of each record
    citationPair,   \* Citation: two citation edges
    citeEq,          \* Citation: the last comparison made
    tallyEnv,       \* co-citation: what OpenCitations holds about the neighbours
    tallyRec,       \* co-citation: the record P
    tallyOp,         \* co-citation: the last method called on P
    rateLog,        \* the requests issued and the pauses taken, in order
    rateLast,        \* the last adapter operation and how it ended
    top_shared,     \* the file data/<eid>/top_shared.txt of the record
    storeEid,       \* the EID of the record whose relationships are stored
    storeCall       \* the last call that was given store and overwrite

resolveVars == <<seed, wDblpSearch, wScopusSearch, wCrossref, wScopus,
                 doi, eid, title, dblp, strategies, idx, calls,
                 lastPub, lastOk, result, pc>>

relVars == <<oRefs, oCites, pRefs, pCites, co_citing_counts, co_cited_counts,
             relCall, relPrev>>

pubVars == <<pubRec, firstLoad, fetches, pubOp, pubsCsv>>

\* what the resolution engine and the relationship engine leave alone
mainVars == <<envKeys, seedsFile, relatedFile, before, phase, seeds, seedIdx,
              all_related_ids, pendingIds, metaRequests>>

\* the cache directories of two records
dirVars == <<dirIds, pubDirs>>

\* two Citation edges and their comparison
citeVars == <<citationPair, citeEq>>

\* a record and the computation of its co-citation tallies
tallyVars == <<tallyEnv, tallyRec, tallyOp>>

\* the remote requests and the rate-limit pauses of the adapters
rateVars == <<rateLog, rateLast>>

\* the stored result of get_strong_citation_relationship
storeVars == <<top_shared, storeEid, storeCall>>

\* the state of the components modelled on their own
auxVars == <<dirVars, citeVars, tallyVars, rateVars, storeVars>>

dirFrame ==
    <<resolveVars, relVars, pubVars, mainVars, citeVars, tallyVars, rateVars,
      storeVars>>

citeFrame ==
    <<resolveVars, relVars, pubVars, mainVars, dirVars, tallyVars, rateVars,
      storeVars>>

tallyFrame ==
    <<resolveVars, relVars, pubVars, mainVars, dirVars, citeVars, rateVars,
      storeVars>>

rateFrame ==
    <<resolveVars, relVars, pubVars, mainVars, dirVars, citeVars, tallyVars,
      storeVars>>

\* the call that stores reads and loads the record of relVars
storeFrame ==
    <<resolveVars, pubVars, mainVars, dirVars, citeVars, tallyVars, rateVars>>

sideVars == <<pubVars, mainVars, auxVars>>

vars == <<resolveVars, relVars, sideVars>>

-----------------------------------------------------------------------------
(* Publication records as run.py sees them. *)

\* reference_count / citation_count values the fixtures use
RefCounts == {0, 5}
CiteCounts == {0, 1}

\* identifier values of the seeds
SeedDois == {"", "10.1234/x"}
SeedEids == {"", "85012345"}
SeedTitles == {"", "Seed title"}

\* title carried by a record's metadata ("" when the metadata has none)
RecordTitles == {"", "T"}

\* DBLP key of a title-search hit
DblpKeys == {"conf/x/k1"}

\* Python None / "" for an identifier
Empty == ""

\* Publication.__init__: eid.rjust(10, '0')
Rjust(e) ==
    IF e = "85012345" THEN "0085012345" ELSE e

Pub(kind, d, e, k, t, rc, cc, m) ==
    [kind |-> kind, doi |-> d, eid |-> e, dblp_key |-> k, title |-> t,
     reference_count |-> rc, citation_count |-> cc, metadata |-> m]

\* search_func returned None
NoPub == Pub("none", Empty, Empty, Empty, Empty, 0, 0, FALSE)

\* search_func did not return: an exception left it
Raised == Pub("raise", Empty, Empty, Empty, Empty, 0, 0, FALSE)

\* not yet returned
Pending == Pub("pending", Empty, Empty, Empty, Empty, 0, 0, FALSE)

\* metadata / title pairs: a title comes out of the metadata, so an empty
\* metadata carries no title
MetaTitle == {<<FALSE, "">>} \cup { <<TRUE, t>> : t \in RecordTitles }

\* DBLPPublication(data_folder, key): the key is stored in the DOI field
DblpPubs(t) ==
    { Pub("dblp", k, Empty, k, mt[2], rc, cc, mt[1]) :
        k \in DblpKeys, mt \in MetaTitle, rc \in RefCounts, cc \in CiteCounts }

CrossRefPubs(d) ==
    { Pub("crossref", d, Empty, Empty, mt[2], rc, cc, mt[1]) :
        mt \in MetaTitle, rc \in RefCounts, cc \in CiteCounts }

ScopusPubs(e) ==
    { Pub("scopus", Empty, Rjust(e), Empty, mt[2], rc, cc, mt[1]) :
        mt \in MetaTitle, rc \in RefCounts, cc \in CiteCounts }

\* what the world answers for an identifier it was not asked about
Lookup(w, id) == IF id \in DOMAIN w THEN w[id] ELSE NoPub

-----------------------------------------------------------------------------
(* run.py: the validity check and the four find_publication_by_* helpers. *)

\* variant of has_citations that wants both counts positive
has_citations_both_counts(pub) ==
    pub.citation_count > 0 /\ pub.reference_count > 0

\* has_citations(pub, service_name): True when either count is positive
has_citations(pub) ==
    pub.citation_count > 0 \/ pub.reference_count > 0

\* check_publication_data(pub, ...) of the older engine (run_crossref.py)
check_publication_data(pub) ==
    pub.metadata /\ (pub.reference_count > 0 /\ pub.citation_count > 0)

\* a helper's outcome: the pub it returns (NoPub for None, Raised when an
\* exception leaves it) and the adapter invocations it made
Outcome(pub, made) == [pub |-> pub, calls |-> made]

\* find_publication_by_title(title): DBLP first, its first hit is returned
\* as is; Scopus next, returned only when has_citations accepts it.  Neither
\* search is inside a try block: what it raises leaves the helper.
find_publication_by_title(t) ==
    IF t = Empty THEN Outcome(NoPub, <<>>)
    ELSE LET dblp_results == Lookup(wDblpSearch, t)
             pub_scopus == Lookup(wScopusSearch, t)
         IN  IF dblp_results = Raised
             THEN Outcome(Raised, << <<"dblp_search", t>> >>)
             ELSE IF dblp_results # NoPub
             THEN Outcome(dblp_results, << <<"dblp_search", t>> >>)
             ELSE IF pub_scopus = Raised
             THEN Outcome(Raised,
                          << <<"dblp_search", t>>, <<"scopus_search", t>> >>)
             ELSE IF pub_scopus # NoPub /\ has_citations(pub_scopus)
             THEN Outcome(pub_scopus,
                          << <<"dblp_search", t>>, <<"scopus_search", t>> >>)
             ELSE Outcome(NoPub,
                          << <<"dblp_search", t>>, <<"scopus_search", t>> >>)

\* find_publication_by_doi(doi): CrossRefPublication(doi) inside try/except
find_publication_by_doi(d) ==
    IF d = Empty THEN Outcome(NoPub, <<>>)
    ELSE Outcome(Lookup(wCrossref, d), << <<"crossref", d>> >>)

\* find_publication_by_eid(eid): ScopusPublication(eid) inside try/except
find_publication_by_eid(e) ==
    IF e = Empty THEN Outcome(NoPub, <<>>)
    ELSE Outcome(Lookup(wScopus, e), << <<"scopus", e>> >>)

\* find_publication_by_dblp(dblp_key): DBLPPublication(dblp_key=...) inside
\* try/except; the world holds no record by key other than the search hits
find_publication_by_dblp(k) ==
    IF k = Empty THEN Outcome(NoPub, <<>>)
    ELSE Outcome(NoPub, << <<"dblp", k>> >>)

\* the search_func of a strategy applied to its value (run.py:176)
search_func(name, value) ==
    CASE name = "title" -> find_publication_by_title(value)
      [] name = "doi"   -> find_publication_by_doi(value)
      [] name = "eid"   -> find_publication_by_eid(value)
      [] name = "dblp"  -> find_publication_by_dblp(value)

\* variant of search_strategies with the DOI entry ahead of the title entry
search_strategies_doi_first(d, e, t, k) ==
    << [name |-> "doi",   value |-> d],
       [name |-> "title", value |-> t],
       [name |-> "eid",   value |-> e],
       [name |-> "dblp",  value |-> k] >>

\* search_strategies (run.py:164-169): the list holds the values the
\* locals have when it is built
search_strategies(d, e, t, k) ==
    << [name |-> "title", value |-> t],
       [name |-> "doi",   value |-> d],
       [name |-> "eid",   value |-> e],
       [name |-> "dblp",  value |-> k] >>

-----------------------------------------------------------------------------
(* run.py: create_publication, one loop iteration per step. *)

\* the worlds a seed can meet: an answer for every identifier it carries
Keys(v) == IF v = Empty THEN {} ELSE {v}

InitResolve ==
    /\ seed \in [doi : SeedDois, eid : SeedEids, title : SeedTitles]
    /\ wDblpSearch \in
         [Keys(seed.title) -> {Raised, NoPub} \cup DblpPubs(seed.title)]
    /\ wScopusSearch \in
         [Keys(seed.title) -> {Raised, NoPub} \cup ScopusPubs("85012345")]
    /\ wCrossref \in [Keys(seed.doi) -> {NoPub} \cup CrossRefPubs(seed.doi)]
    /\ wScopus \in [Keys(seed.eid) -> {NoPub} \cup ScopusPubs(seed.eid)]
    /\ doi = seed.doi
    /\ eid = seed.eid
    /\ title = seed.title
    /\ dblp = Empty
    /\ strategies = search_strategies(seed.doi, seed.eid, seed.title, Empty)
    /\ idx = 1
    /\ calls = <<>>
    /\ lastPub = Pending
    /\ lastOk = FALSE
    /\ result = Pending
    /\ pc = "loop"

world == <<seed, wDblpSearch, wScopusSearch, wCrossref, wScopus>>

InLoop == pc = "loop" /\ idx <= Len(strategies)

\* what search_func answers in the current iteration
Current == search_func(strategies[idx].name, strategies[idx].value)

\* run.py:172-173  "if not value: continue"
SkipStrategy ==
    /\ InLoop
    /\ strategies[idx].value = Empty
    /\ idx' = idx + 1
    /\ UNCHANGED <<sideVars, relVars, world, doi, eid, title, dblp, strategies, calls,
                   lastPub, lastOk, result, pc>>

\* run.py:176  an exception leaves search_func: nothing catches it
StrategyRaises ==
    /\ InLoop
    /\ strategies[idx].value # Empty
    /\ Current.pub = Raised
    /\ calls' = calls \o Current.calls
    /\ result' = Raised
    /\ pc' = "done"
    /\ UNCHANGED <<sideVars, relVars, world, doi, eid, title, dblp, strategies, idx,
                   lastPub, lastOk>>

\* run.py:178-180  "if pub and has_citations(pub, ...): return pub"
StrategyFound ==
    /\ InLoop
    /\ strategies[idx].value # Empty
    /\ Current.pub \notin {Raised, NoPub}
    /\ has_citations(Current.pub)
    /\ calls' = calls \o Current.calls
    /\ lastPub' = Current.pub
    /\ lastOk' = TRUE
    /\ result' = Current.pub
    /\ pc' = "done"
    /\ UNCHANGED <<sideVars, relVars, world, doi, eid, title, dblp, strategies, idx>>

\* run.py:184-192  a pub without citations hands its identifiers to the
\* locals; the loop goes on with the next entry of search_strategies
StrategyFalls ==
    /\ InLoop
    /\ strategies[idx].value # Empty
    /\ Current.pub # Raised
    /\ ~ (Current.pub # NoPub /\ has_citations(Current.pub))
    /\ LET pub == Current.pub IN
         /\ calls' = calls \o Current.calls
         /\ lastPub' = pub
         /\ lastOk' = FALSE
         /\ doi' = IF pub # NoPub /\ doi = Empty /\ pub.doi # Empty
                   THEN pub.doi ELSE doi
         /\ title' = IF pub # NoPub /\ title = Empty /\ pub.title # Empty
                     THEN pub.title ELSE title
         /\ dblp' = IF pub # NoPub /\ dblp = Empty /\ pub.kind = "dblp"
                    THEN pub.dblp_key ELSE dblp
         /\ eid' = IF pub # NoPub /\ eid = Empty /\ pub.eid # Empty
                   THEN pub.eid ELSE eid
    /\ idx' = idx + 1
    /\ UNCHANGED <<sideVars, relVars, world, strategies, result, pc>>

\* run.py:194-195  the list is exhausted: return None
ReturnNone ==
    /\ pc = "loop"
    /\ idx > Len(strategies)
    /\ result' = NoPub
    /\ pc' = "done"
    /\ UNCHANGED <<sideVars, relVars, world, doi, eid, title, dblp, strategies, idx, calls,
                   lastPub, lastOk>>

-----------------------------------------------------------------------------
(* citation_filtering.py: the citation relationship engine, applied to one *)
(* record.  A record starts as Publication.__init__ leaves it (both edge   *)
(* lists empty); its edge lists are read through the lazy properties of    *)
(* publication.py, its tallies are data it was given.                      *)

\* longest edge list OpenCitations answers with
MaxEdges == 2

\* largest tally a record carries
MaxTally == 2

RefIds == {"a", "b"}
CiteIds == {"c"}
CoCitingKeys == {"c", "d"}
CoCitedKeys == {"d"}

\* the shared fractions tried, as <<numerator, denominator>>
Shareds == { <<1, 10>>, <<1, 2>>, <<1, 1>> }

SeqsUpTo(S, n) == UNION { [1..k -> S] : k \in 0..n }

\* the mappings a tally can be: some keys, a count for each
Tallies(K) == UNION { [D -> 0..MaxTally] : D \in SUBSET K }

Range(f) == { f[i] : i \in DOMAIN f }

\* no call made yet
NoCall == [op |-> "none", shared |-> <<1, 1>>, value |-> {}]

\* Publication.references / Publication.citations (and reference_count,
\* citation_count): an empty list is fetched before it is read
LoadRefs(stored) == IF stored = <<>> THEN oRefs ELSE stored
LoadCites(stored) == IF stored = <<>> THEN oCites ELSE stored

\* variant of min_count that rounds down: math.floor(count * shared)
min_count_floor(count, shared) ==
    (count * shared[1]) \div shared[2]

\* math.ceil(count * shared) for shared = num / den
min_count(count, shared) ==
    (count * shared[1] + shared[2] - 1) \div shared[2]

\* variant of get_strong_co_citing that keeps the tallies up to the minimum
get_strong_co_citing_at_most(stored, shared) ==
    LET reference_count == Len(IF stored = <<>> THEN oRefs ELSE stored)
    IN  { k \in DOMAIN co_citing_counts :
            co_citing_counts[k] * shared[2] <= reference_count * shared[1] }

\* get_strong_co_citing(publication, shared): reading reference_count
\* loads the reference list when the stored one is empty
get_strong_co_citing(stored, shared) ==
    LET reference_count == Len(LoadRefs(stored))
    IN  { k \in DOMAIN co_citing_counts :
            co_citing_counts[k] >= min_count(reference_count, shared) }

\* get_strong_co_cited(publication, shared)
get_strong_co_cited(stored, shared) ==
    LET citation_count == Len(LoadCites(stored))
    IN  { k \in DOMAIN co_cited_counts :
            co_cited_counts[k] >= min_count(citation_count, shared) }

\* variant of get_strong_citation_relationship without the co-cited keys
get_strong_citation_relationship_no_co_cited(storedRefs, storedCites, shared) ==
    LET refs == IF storedRefs = <<>> THEN oRefs ELSE storedRefs
        cites == IF storedCites = <<>> THEN oCites ELSE storedCites
    IN  (Range(refs) \cup Range(cites))
            \cup { k \in DOMAIN co_citing_counts :
                     co_citing_counts[k] * shared[2] >= Len(refs) * shared[1] }

\* variant of get_strong_citation_relationship whose direct edges are the
\* stored lists as they are, the counts alone loading them
get_strong_citation_relationship_stored(storedRefs, storedCites, shared) ==
    LET refs == IF storedRefs = <<>> THEN oRefs ELSE storedRefs
        cites == IF storedCites = <<>> THEN oCites ELSE storedCites
    IN  (Range(storedRefs) \cup Range(storedCites))
            \cup { k \in DOMAIN co_citing_counts :
                     co_citing_counts[k] * shared[2] >= Len(refs) * shared[1] }
            \cup { k \in DOMAIN co_cited_counts :
                     co_cited_counts[k] * shared[2] >= Len(cites) * shared[1] }

\* get_strong_citation_relationship(publication, shared): the set returned.
\* The direct edges are read first, which loads both lists.
get_strong_citation_relationship(storedRefs, storedCites, shared) ==
    LET refs == LoadRefs(storedRefs)
        cites == LoadCites(storedCites)
    IN  ((Range(refs) \cup Range(cites))
            \cup get_strong_co_citing(refs, shared))
            \cup get_strong_co_cited(cites, shared)

InitRel ==
    /\ oRefs \in SeqsUpTo(RefIds, MaxEdges)
    /\ oCites \in SeqsUpTo(CiteIds, MaxEdges)
    /\ pRefs = <<>>
    /\ pCites = <<>>
    /\ co_citing_counts \in Tallies(CoCitingKeys)
    /\ co_cited_counts \in Tallies(CoCitedKeys)
    /\ relCall = NoCall
    /\ relPrev = NoCall

\* a call of get_strong_co_citing: reading reference_count loads the list
CallCoCiting ==
    \E shared \in Shareds :
        /\ pRefs' = LoadRefs(pRefs)
        /\ relCall' = [op |-> "co_citing", shared |-> shared,
                       value |-> get_strong_co_citing(pRefs, shared)]
        /\ relPrev' = relCall
        /\ UNCHANGED <<sideVars, resolveVars, oRefs, oCites, pCites,
                       co_citing_counts, co_cited_counts>>

\* a call of get_strong_co_cited: reading citation_count loads the list
CallCoCited ==
    \E shared \in Shareds :
        /\ pCites' = LoadCites(pCites)
        /\ relCall' = [op |-> "co_cited", shared |-> shared,
                       value |-> get_strong_co_cited(pCites, shared)]
        /\ relPrev' = relCall
        /\ UNCHANGED <<sideVars, resolveVars, oRefs, oCites, pRefs,
                       co_citing_counts, co_cited_counts>>

\* a call of get_strong_citation_relationship
CallStrong ==
    \E shared \in Shareds :
        /\ pRefs' = LoadRefs(pRefs)
        /\ pCites' = LoadCites(pCites)
        /\ relCall' = [op |-> "strong", shared |-> shared,
                       value |-> get_strong_citation_relationship(
                                    pRefs, pCites, shared)]
        /\ relPrev' = relCall
        /\ UNCHANGED <<sideVars, resolveVars, oRefs, oCites,
                       co_citing_counts, co_cited_counts>>

-----------------------------------------------------------------------------
(* publication.py, crossref_publication.py, scopus_publication.py: one     *)
(* record at a time, its constructors and its lazy accessors.  The remote  *)
(* services answer each request as they please.                            *)

\* most edge fetches followed for one record
MaxFetches == 2

\* identifiers handed to the constructors
PubDois == {"", "10.1234/x"}
PubEids == {"", "85012345"}

\* a list attribute of a record: a Python list or None
PyList(items) == [none |-> FALSE, items |-> items]
PyNone == [none |-> TRUE, items |-> <<>>]

\* "not x" of Python for such an attribute
Falsy(stored) == stored.none \/ stored.items = <<>>

\* what get_references / get_citations can meet: the request raises, the body
\* is not a list, or it is a list of identifiers
EdgeAnswers ==
    { [kind |-> "raise", items |-> <<>>],
      [kind |-> "notlist", items |-> <<>>],
      [kind |-> "list", items |-> <<>>],
      [kind |-> "list", items |-> <<"doi:10.1/a">>] }

\* what crossref_commons answers for a DOI: a RequestException (the
\* metadata becomes {}) or the document of the DOI
MetaAnswers == {"{}", "doc"}

\* no record: the constructor raised, or none was called yet
NoRecord ==
    [kind |-> "none", _doi |-> Empty, _eid |-> Empty, _metadata |-> "None",
     _references |-> PyList(<<>>), _citations |-> PyList(<<>>),
     has_citations_ |-> FALSE, citations_ |-> <<>>]

\* variant of Publication.__init__ without the identifier test
Publication_init_any(kind, d, e) ==
    [kind |-> kind, _doi |-> d, _eid |-> Rjust(e), _metadata |-> "None",
     _references |-> PyList(<<>>), _citations |-> PyList(<<>>),
     has_citations_ |-> FALSE, citations_ |-> <<>>]

\* Publication.__init__(data_folder, doi, eid): ValueError (no record) when
\* both identifiers are empty; the attribute citations_ is not set
Publication_init(kind, d, e) ==
    IF d = Empty /\ e = Empty
    THEN NoRecord
    ELSE [kind |-> kind, _doi |-> d, _eid |-> Rjust(e), _metadata |-> "None",
          _references |-> PyList(<<>>), _citations |-> PyList(<<>>),
          has_citations_ |-> FALSE, citations_ |-> <<>>]

\* Publication.id
PubId(rec) == IF rec._doi # Empty THEN rec._doi ELSE rec._eid

NoLoad == [id |-> Empty, metadata |-> "None"]

\* what is kept of a record when the next one is built
Load(rec) ==
    IF rec.kind = "none" THEN NoLoad
    ELSE [id |-> PubId(rec), metadata |-> rec._metadata]

\* a year bound of filter_citations: None or a year
NoBound == [given |-> FALSE, year |-> 0]
Bound(y) == [given |-> TRUE, year |-> y]

NoPubOp ==
    [op |-> "none", raised |-> FALSE, requests |-> 0,
     doi |-> Empty, eid |-> Empty, min_year |-> NoBound, max_year |-> NoBound]

\* an operation, how it ended, the requests it issued, its arguments
PubOpOf(op, raised, requests, d, e) ==
    [op |-> op, raised |-> raised, requests |-> requests,
     doi |-> d, eid |-> e, min_year |-> NoBound, max_year |-> NoBound]

NoFetches == [references |-> 0, citations |-> 0]

InitPub ==
    /\ pubRec = NoRecord
    /\ firstLoad = NoLoad
    /\ fetches = NoFetches
    /\ pubOp = NoPubOp
    /\ pubsCsv = [exists |-> FALSE, rows |-> <<>>]

\* Publication(data_folder, doi=d, eid=e)
NewPublication ==
    \E d \in PubDois, e \in PubEids :
        LET rec == Publication_init("publication", d, e) IN
        /\ pubRec' = rec
        /\ firstLoad' = Load(pubRec)
        /\ fetches' = NoFetches
        /\ pubOp' = PubOpOf("Publication", rec.kind = "none", 0, d, e)
        /\ UNCHANGED <<auxVars, resolveVars, relVars, mainVars, pubsCsv>>

\* CrossRefPublication(data_folder, d): the base constructor, then the
\* metadata property, which asks crossref_commons whenever _metadata is None
NewCrossRef ==
    \E d \in PubDois, answer \in MetaAnswers :
        LET rec == Publication_init("crossref", d, Empty) IN
        /\ pubRec' = IF rec.kind = "none" THEN rec
                  ELSE [rec EXCEPT !._metadata = answer]
        /\ firstLoad' = Load(pubRec)
        /\ fetches' = NoFetches
        /\ pubOp' = PubOpOf("CrossRefPublication", rec.kind = "none",
                            IF rec.kind = "none" THEN 0 ELSE 1, d, Empty)
        /\ UNCHANGED <<auxVars, resolveVars, relVars, mainVars, pubsCsv>>

\* ScopusPublication(data_folder, e): the base constructor leaves
\* _pub_directory None, and os.path.join(None, 'citations') raises TypeError
\* before any file is looked at or any request is made
NewScopus ==
    \E e \in PubEids :
        /\ pubRec' = NoRecord
        /\ firstLoad' = Load(pubRec)
        /\ fetches' = NoFetches
        /\ pubOp' = PubOpOf("ScopusPublication", TRUE, 0, Empty, e)
        /\ UNCHANGED <<auxVars, resolveVars, relVars, mainVars, pubsCsv>>

\* "if not self._x: self._x = self.get_x()": an empty list or None is
\* fetched; get_x lets a failed request raise and returns None for a body
\* that is not a list
lazy_load(stored, answer) ==
    IF ~ Falsy(stored)
    THEN [stored |-> stored, raised |-> FALSE, fetched |-> 0]
    ELSE IF answer.kind = "raise"
    THEN [stored |-> stored, raised |-> TRUE, fetched |-> 1]
    ELSE IF answer.kind = "notlist"
    THEN [stored |-> PyNone, raised |-> FALSE, fetched |-> 1]
    ELSE [stored |-> PyList(answer.items), raised |-> FALSE, fetched |-> 1]

\* the answers that matter to a read of a list attribute: none is asked
\* for when the stored list is not empty
AnswersFor(stored) ==
    IF Falsy(stored) THEN EdgeAnswers
    ELSE { [kind |-> "list", items |-> <<>>] }

\* reference_count / citation_count: the lazy load, then len(self._x),
\* a TypeError when _x is None
lazy_count(stored, answer) ==
    LET loaded == lazy_load(stored, answer)
    IN  [loaded EXCEPT !.raised = loaded.raised \/ loaded.stored.none]

\* pub.references (counted = FALSE) or pub.reference_count (counted = TRUE)
ReadReferences ==
    \E counted \in BOOLEAN, answer \in AnswersFor(pubRec._references) :
        LET read == IF counted THEN lazy_count(pubRec._references, answer)
                    ELSE lazy_load(pubRec._references, answer) IN
        /\ pubRec.kind # "none"
        /\ fetches.references + read.fetched <= MaxFetches
        /\ pubRec' = [pubRec EXCEPT !._references = read.stored]
        /\ fetches' = [fetches EXCEPT !.references = @ + read.fetched]
        /\ pubOp' = PubOpOf(IF counted THEN "reference_count" ELSE "references",
                            read.raised, read.fetched, Empty, Empty)
        /\ UNCHANGED <<auxVars, resolveVars, relVars, mainVars, firstLoad, pubsCsv>>

\* pub.citations (counted = FALSE) or pub.citation_count (counted = TRUE)
ReadCitations ==
    \E counted \in BOOLEAN, answer \in AnswersFor(pubRec._citations) :
        LET read == IF counted THEN lazy_count(pubRec._citations, answer)
                    ELSE lazy_load(pubRec._citations, answer) IN
        /\ pubRec.kind # "none"
        /\ fetches.citations + read.fetched <= MaxFetches
        /\ pubRec' = [pubRec EXCEPT !._citations = read.stored]
        /\ fetches' = [fetches EXCEPT !.citations = @ + read.fetched]
        /\ pubOp' = PubOpOf(IF counted THEN "citation_count" ELSE "citations",
                            read.raised, read.fetched, Empty, Empty)
        /\ UNCHANGED <<auxVars, resolveVars, relVars, mainVars, firstLoad, pubsCsv>>

\* years of the citations and of the bounds tried
Years == {2023}
YearBounds == {NoBound} \cup { Bound(y) : y \in Years }

\* the test of filter_citations on one citation: dropped without a year,
\* below min_year or above max_year
InYears(citation, min_year, max_year) ==
    /\ citation.dated
    /\ min_year.given => citation.year >= min_year.year
    /\ max_year.given => citation.year <= max_year.year

\* filter_citations: the list assigned to self.citations_
filtered_citations(listed, min_year, max_year) ==
    SelectSeq(listed, LAMBDA citation : InYears(citation, min_year, max_year))

\* CrossRefPublication.filter_citations(min_year, max_year): it reads
\* self.citations_, an attribute only its own last line ever sets
FilterCitations ==
    \E min_year \in YearBounds, max_year \in YearBounds :
        /\ pubRec.kind = "crossref"
        /\ pubRec' = IF pubRec.has_citations_
                  THEN [pubRec EXCEPT !.citations_ =
                          filtered_citations(@, min_year, max_year)]
                  ELSE pubRec
        /\ pubOp' = [PubOpOf("filter_citations", ~ pubRec.has_citations_, 0,
                             Empty, Empty)
                       EXCEPT !.min_year = min_year, !.max_year = max_year]
        /\ UNCHANGED <<auxVars, resolveVars, relVars, mainVars, firstLoad, fetches, pubsCsv>>

\* most rows the summary file is followed for
MaxRows == 2

\* Publication.append_to_csv: the header goes in only when the file did not
\* exist at the call; the row goes in unless reading a count raised
append_to_csv(file, row_written) ==
    [exists |-> TRUE,
     rows |-> (file.rows \o (IF file.exists THEN <<>> ELSE <<"header">>))
                \o (IF row_written THEN <<"row">> ELSE <<>>)]

\* cache_pub_metadata, run.py:216-217: an absent file is created empty
created_if_missing(file) ==
    IF file.exists THEN file ELSE [exists |-> TRUE, rows |-> <<>>]

\* cache_pub_metadata(pub, output_file).  A base Publication has no title
\* attribute: run.py:213 raises before the file is touched.  Otherwise the
\* file is created when absent, append_to_csv reads citation_count and
\* reference_count inside its try block, and run.py:227-228 read both counts
\* again outside any try block.
CachePubMetadata ==
    \E cites1 \in AnswersFor(pubRec._citations) :
    \E refs1 \in AnswersFor(pubRec._references) :
    \E refs2 \in AnswersFor(lazy_count(pubRec._references, refs1).stored) :
    \E cites2 \in AnswersFor(lazy_count(pubRec._citations, cites1).stored) :
        LET c1 == lazy_count(pubRec._citations, cites1)
            r1 == IF c1.raised
                  THEN [stored |-> pubRec._references, raised |-> TRUE,
                        fetched |-> 0]
                  ELSE lazy_count(pubRec._references, refs1)
            r2 == lazy_count(r1.stored, refs2)
            c2 == IF r2.raised
                  THEN [stored |-> c1.stored, raised |-> TRUE, fetched |-> 0]
                  ELSE lazy_count(c1.stored, cites2)
            requestsR == r1.fetched + r2.fetched
            requestsC == c1.fetched + c2.fetched
        IN
        /\ pubRec.kind # "none"
        /\ Len(pubsCsv.rows) < MaxRows
        /\ IF pubRec.kind = "publication"
           THEN /\ pubOp' = PubOpOf("cache_pub_metadata", TRUE, 0, Empty, Empty)
                /\ UNCHANGED <<pubRec, fetches, pubsCsv>>
           ELSE /\ fetches.references + requestsR <= MaxFetches
                /\ fetches.citations + requestsC <= MaxFetches
                /\ pubsCsv' = append_to_csv(created_if_missing(pubsCsv),
                                            ~ c1.raised /\ ~ r1.raised)
                /\ pubRec' = [pubRec EXCEPT !._references = r2.stored,
                                      !._citations = c2.stored]
                /\ fetches' = [references |-> fetches.references + requestsR,
                               citations |-> fetches.citations + requestsC]
                /\ pubOp' = PubOpOf("cache_pub_metadata",
                                    r2.raised \/ c2.raised,
                                    requestsR + requestsC, Empty, Empty)
        /\ UNCHANGED <<auxVars, resolveVars, relVars, mainVars, firstLoad>>

PubIdle ==
    /\ pubRec = NoRecord
    /\ firstLoad = NoLoad
    /\ fetches = NoFetches
    /\ pubOp = NoPubOp
    /\ pubsCsv = [exists |-> FALSE, rows |-> <<>>]

-----------------------------------------------------------------------------
(* run.py as a program: the module loads, read_seed_csv, main.              *)

\* most data rows of a seed file
MaxSeedRows == 2

\* an environment variable: not set, set to '', or set to a key
EnvValues == {"unset", "", "key"}

\* os.getenv(name, '')
getenv(value) == IF value = "unset" THEN "" ELSE value

\* variant of key_missing that accepts every value
key_missing_never(value) == FALSE

\* "if not KEY" on os.getenv(name, '') (publication.py:20-21,
\* scopus_publication.py:16-17)
key_missing(value) == getenv(value) = ""

\* the imports at the top of run.py: publication.py and
\* crossref_publication.py want OPENCITATIONS_API_KEY, scopus_publication.py
\* wants SCOPUS_API_KEY; a missing one raises ValueError at import
LoadModules ==
    /\ phase = "start"
    /\ phase' = IF \/ key_missing(envKeys.OPENCITATIONS_API_KEY)
                   \/ key_missing(envKeys.SCOPUS_API_KEY)
                THEN "failed" ELSE "loaded"
    /\ UNCHANGED <<auxVars, resolveVars, relVars, pubVars, envKeys, seedsFile,
                   relatedFile, before, seeds, seedIdx, all_related_ids,
                   pendingIds, metaRequests>>

\* the header lines and the data rows of the seed files tried; a row is the
\* list of its fields
SeedHeaders == { <<"DOI", "EID", "Title">>, <<"DOI", "Title">> }
SeedRows ==
    { <<"10.1234/x", "", "">>, <<" 10.1234/y ", "", " T">>,
      <<" ", "", "">>, <<"10.1234/y">> }

\* str.strip() on the fields above
Strip(text) ==
    CASE text = " 10.1234/y " -> "10.1234/y"
      [] text = " T" -> "T"
      [] text = " " -> ""
      [] OTHER -> text

\* csv.DictReader, then row.get(column, ''): '' for a column the header
\* lacks, None (restval) for a column the row is too short for
RowGet(header, row, column) ==
    IF \A i \in 1..Len(header) : header[i] # column
    THEN [none |-> FALSE, text |-> ""]
    ELSE LET i == CHOOSE i \in 1..Len(header) : header[i] = column
         IN  IF i <= Len(row) THEN [none |-> FALSE, text |-> row[i]]
             ELSE [none |-> TRUE, text |-> ""]

SeedTuple(d, e, t) == [doi |-> d, eid |-> e, title |-> t]

\* the loop of read_seed_csv (run.py:256-262) from row i on: None.strip()
\* raises AttributeError, which leaves the function
RECURSIVE read_rows(_, _, _)
read_rows(file, i, found) ==
    IF i > Len(file.rows) THEN [raised |-> FALSE, seeds |-> found]
    ELSE LET row == file.rows[i]
             d == RowGet(file.header, row, "DOI")
             e == RowGet(file.header, row, "EID")
             t == RowGet(file.header, row, "Title")
         IN  IF d.none \/ e.none \/ t.none
             THEN [raised |-> TRUE, seeds |-> <<>>]
             ELSE IF Strip(d.text) # "" \/ Strip(e.text) # ""
                     \/ Strip(t.text) # ""
             THEN read_rows(file, i + 1,
                    Append(found, SeedTuple(Strip(d.text), Strip(e.text),
                                            Strip(t.text))))
             ELSE read_rows(file, i + 1, found)

\* read_seed_csv(input_file): a missing file is reported and gives []
read_seed_csv(file) ==
    IF ~ file.exists THEN [raised |-> FALSE, seeds |-> <<>>]
    ELSE read_rows(file, 1, <<>>)

\* main, run.py:311
ReadSeeds ==
    /\ phase = "loaded"
    /\ LET read == read_seed_csv(seedsFile) IN
         /\ seeds' = read.seeds
         /\ phase' = IF read.raised THEN "read_raised" ELSE "seeds"
    /\ UNCHANGED <<auxVars, resolveVars, relVars, pubVars, envKeys, seedsFile,
                   relatedFile, before, seedIdx, all_related_ids,
                   pendingIds, metaRequests>>

\* the DOIs and the title of the seeds, and the related identifiers as
\* _extract_doi returns them (the match keeps its 'doi:' prefix)
MainDois == {"10.1234/x", "10.1234/y"}
MainTitles == {"T"}
RelatedIds == {"doi:10.1234/x", "doi:10.1234/z"}

\* id.startswith('doi:')
HasDoiPrefix(id) == id \in RelatedIds

\* id.replace('doi:', '')
WithoutDoiPrefix(id) ==
    CASE id = "doi:10.1234/x" -> "10.1234/x"
      [] id = "doi:10.1234/z" -> "10.1234/z"
      [] OTHER -> id

\* the edge lists a CrossRef record of the run can have
MainEdges ==
    { <<<<>>, <<>>>>,
      <<<<"doi:10.1234/x">>, <<>>>>,
      <<<<"doi:10.1234/z">>, <<"doi:10.1234/x">>>> }

\* a CrossRef record with its edge lists
MainPubs(d) ==
    { [kind |-> "crossref", doi |-> d, eid |-> Empty, dblp_key |-> Empty,
       title |-> "T", reference_count |-> Len(edges[1]),
       citation_count |-> Len(edges[2]), metadata |-> TRUE,
       references |-> edges[1], citations |-> edges[2]] : edges \in MainEdges }

\* create_publication(doi, eid, title) as one call: the loop over
\* search_strategies from entry i on, with the adapter invocations made
RECURSIVE run_search_strategies(_, _, _)
run_search_strategies(listed, i, made) ==
    IF i > Len(listed) THEN Outcome(NoPub, made)
    ELSE IF listed[i].value = Empty
    THEN run_search_strategies(listed, i + 1, made)
    ELSE LET found == search_func(listed[i].name, listed[i].value)
         IN  IF found.pub = Raised
             THEN Outcome(Raised, made \o found.calls)
             ELSE IF found.pub # NoPub /\ has_citations(found.pub)
             THEN Outcome(found.pub, made \o found.calls)
             ELSE run_search_strategies(listed, i + 1, made \o found.calls)

create_publication(d, e, t) ==
    run_search_strategies(search_strategies(d, e, t, Empty), 1, <<>>)

\* the metadata requests among adapter invocations: every CrossRef
\* construction asks for the DOI's metadata
Requested(made, counts) ==
    [d \in DOMAIN counts |->
        counts[d] + Cardinality({ i \in 1..Len(made) :
                                    made[i] = <<"crossref", d>> })]

\* variant of save_related_ids_csv that opens the file for appending
save_related_ids_csv_append(ids, file) ==
    [exists |-> TRUE, lines |-> file.lines \cup ids]

\* save_related_ids_csv(all_related_ids, output_file): open(..., 'w'), one
\* line per identifier
save_related_ids_csv(ids, file) ==
    [exists |-> TRUE, lines |-> ids]

InitMain ==
    /\ envKeys \in [OPENCITATIONS_API_KEY : EnvValues,
                    SCOPUS_API_KEY : EnvValues]
    /\ seedsFile \in
         { [exists |-> FALSE, header |-> <<>>, rows |-> <<>>] } \cup
         [exists : {TRUE}, header : SeedHeaders,
          rows : SeqsUpTo(SeedRows, MaxSeedRows)]
    /\ relatedFile \in { [exists |-> FALSE, lines |-> {}],
                         [exists |-> TRUE, lines |-> {"doi:10.1234/old"}] }
    /\ pubsCsv \in { [exists |-> FALSE, rows |-> <<>>],
                     [exists |-> TRUE, rows |-> <<"header", "row">>] }
    /\ before = [related |-> relatedFile, pubs |-> pubsCsv]
    /\ phase = "start"
    /\ seeds = <<>>
    /\ seedIdx = 1
    /\ all_related_ids = {}
    /\ pendingIds = {}
    /\ metaRequests = [d \in MainDois \cup {"10.1234/z"} |-> 0]
    /\ seed = SeedTuple(Empty, Empty, Empty)
    /\ wDblpSearch \in [MainTitles -> {Raised, NoPub}]
    /\ wScopusSearch \in [MainTitles -> {NoPub}]
    /\ wCrossref \in
         { w \in [MainDois -> {NoPub} \cup UNION { MainPubs(d) : d \in MainDois }] :
             \A d \in MainDois : w[d] = NoPub \/ w[d].doi = d }
    /\ wScopus = <<>>
    /\ doi = Empty
    /\ eid = Empty
    /\ title = Empty
    /\ dblp = Empty
    /\ strategies = <<>>
    /\ idx = 1
    /\ calls = <<>>
    /\ lastPub = Pending
    /\ lastOk = FALSE
    /\ result = Pending
    /\ pc = "idle"
    /\ pubRec = NoRecord
    /\ firstLoad = NoLoad
    /\ fetches = NoFetches
    /\ pubOp = NoPubOp

\* what main leaves alone of the other components
mainFrame ==
    <<auxVars, relVars, pubRec, firstLoad, fetches, pubOp, envKeys, seedsFile, before,
      world, doi, eid, title, dblp, strategies, idx, calls, lastPub, lastOk,
      result, pc>>

\* main, run.py:315-326: one seed of the loop.  An exception that leaves
\* create_publication leaves main.
SeedStep ==
    /\ phase = "seeds"
    /\ seedIdx <= Len(seeds)
    /\ LET s == seeds[seedIdx]
           made == create_publication(s.doi, s.eid, s.title)
       IN  /\ metaRequests' = Requested(made.calls, metaRequests)
           /\ IF made.pub = Raised
              THEN /\ phase' = "main_raised"
                   /\ UNCHANGED <<pubsCsv, all_related_ids, seedIdx>>
              ELSE /\ phase' = phase
                   /\ seedIdx' = seedIdx + 1
                   /\ IF made.pub = NoPub
                      THEN UNCHANGED <<pubsCsv, all_related_ids>>
                      ELSE /\ pubsCsv' = append_to_csv(
                                            created_if_missing(pubsCsv), TRUE)
                           /\ all_related_ids' = all_related_ids
                                \cup Range(made.pub.references)
                                \cup Range(made.pub.citations)
    /\ UNCHANGED <<mainFrame, relatedFile, seeds, pendingIds>>

\* main, run.py:329-332: the seed loop is over, the related IDs are saved
SaveRelated ==
    /\ phase = "seeds"
    /\ seedIdx > Len(seeds)
    /\ relatedFile' = save_related_ids_csv(all_related_ids, relatedFile)
    /\ pendingIds' = all_related_ids
    /\ phase' = "related"
    /\ UNCHANGED <<mainFrame, pubsCsv, seeds, seedIdx, all_related_ids,
                   metaRequests>>

\* main, run.py:336-344: the lookup chosen for a related identifier (no
\* identifier of the run starts with '2-s2.0-')
find_related(id) ==
    LET by_doi == find_publication_by_doi(WithoutDoiPrefix(id))
        by_eid == find_publication_by_eid(id)
    IN  IF HasDoiPrefix(id) THEN by_doi
        ELSE IF by_doi.pub # NoPub THEN by_doi
        ELSE Outcome(by_eid.pub, by_doi.calls \o by_eid.calls)

\* main, run.py:334-347: one related identifier, in the order the set gives
RelatedStep ==
    /\ phase = "related"
    /\ \E id \in pendingIds :
         LET made == find_related(id) IN
         /\ pendingIds' = pendingIds \ {id}
         /\ metaRequests' = Requested(made.calls, metaRequests)
         /\ pubsCsv' = IF made.pub = NoPub THEN pubsCsv
                       ELSE append_to_csv(created_if_missing(pubsCsv), TRUE)
    /\ UNCHANGED <<mainFrame, relatedFile, seeds, seedIdx, all_related_ids,
                   phase>>

\* main returns
FinishMain ==
    /\ phase = "related"
    /\ pendingIds = {}
    /\ phase' = "done"
    /\ UNCHANGED <<mainFrame, relatedFile, pubsCsv, seeds, seedIdx,
                   all_related_ids, pendingIds, metaRequests>>

MainIdle ==
    /\ envKeys = [OPENCITATIONS_API_KEY |-> "key", SCOPUS_API_KEY |-> "key"]
    /\ seedsFile = [exists |-> FALSE, header |-> <<>>, rows |-> <<>>]
    /\ relatedFile = [exists |-> FALSE, lines |-> {}]
    /\ before = [related |-> relatedFile, pubs |-> pubsCsv]
    /\ phase = "idle"
    /\ seeds = <<>>
    /\ seedIdx = 1
    /\ all_related_ids = {}
    /\ pendingIds = {}
    /\ metaRequests = <<>>

-----------------------------------------------------------------------------
(* publication.py: create_pub_directory, for two records.  An identifier   *)
(* is the sequence of its characters.                                       *)

\* longest identifier tried
MaxIdLen == 5

\* the characters of an identifier: a digit, the dot, the slash
IdChars == {"1", ".", "/"}

\* id_to_use: the EID when there is one, else the DOI; it starts and ends
\* with a digit and has no empty path component
Identifiers ==
    { id \in UNION { [1..n -> IdChars] : n \in 1..MaxIdLen } :
        /\ id[1] = "1"
        /\ id[Len(id)] = "1"
        /\ \A k \in 1..(Len(id) - 1) : ~ (id[k] = "/" /\ id[k + 1] = "/") }

\* str.rfind, 1-based: the position of the last c in text, 0 without one
LastIndexOf(text, c) ==
    LET at == { k \in 1..Len(text) : text[k] = c }
    IN  IF at = {} THEN 0 ELSE CHOOSE k \in at : \A j \in at : j <= k

\* PurePath.name: what follows the last separator
PathName(text) == SubSeq(text, LastIndexOf(text, "/") + 1, Len(text))

\* PurePath.stem: the name without its last suffix; a dot that starts or
\* ends the name starts no suffix
PathStem(text) ==
    LET name == PathName(text)
        dot == LastIndexOf(name, ".")
    IN  IF dot > 1 /\ dot < Len(name) THEN SubSeq(name, 1, dot - 1) ELSE name

\* no directory made for the record
NoDir == [made |-> FALSE, data_folder |-> "", safe_id |-> <<>>]

\* create_pub_directory(data_folder): Path(data_folder) / Path(id).stem,
\* which mkdir then creates
create_pub_directory(data_folder, id_to_use) ==
    [made |-> TRUE, data_folder |-> data_folder,
     safe_id |-> PathStem(id_to_use)]

InitDir ==
    /\ dirIds \in [1..2 -> Identifiers]
    /\ pubDirs = [i \in 1..2 |-> NoDir]

\* record i makes its directory
CreatePubDirectory ==
    \E i \in 1..2 :
        /\ pubDirs' = [pubDirs EXCEPT
                         ![i] = create_pub_directory("data", dirIds[i])]
        /\ UNCHANGED <<dirFrame, dirIds>>

DirIdle ==
    /\ dirIds = <<>>
    /\ pubDirs = <<>>

-----------------------------------------------------------------------------
(* run_crossref.py: the Citation dataclass, two edges and their comparison. *)

\* the target identifiers and the years of the edges tried
CitationDois == {"10.1234/x", "10.1234/y"}
CitationYears == {2020, 2021}

\* year: Optional[int] = None
NoYear == [given |-> FALSE, year |-> 0]
YearOf(y) == [given |-> TRUE, year |-> y]

NoCitation == [built |-> FALSE, doi |-> "", year |-> NoYear]

\* Citation(doi, year)
Citation(d, y) == [built |-> TRUE, doi |-> d, year |-> y]

\* Citation.__eq__ as @dataclass generates it: the tuples of all fields,
\* (doi, year), are compared
Citation_eq(a, b) == a.doi = b.doi /\ a.year = b.year

NoComparison == [made |-> FALSE, left |-> NoCitation, right |-> NoCitation,
                 equal |-> FALSE]

InitCite ==
    /\ citationPair = [i \in 1..2 |-> NoCitation]
    /\ citeEq = NoComparison

\* Citation(doi=d) or Citation(doi=d, year=y)
NewCitation ==
    \E i \in 1..2, d \in CitationDois,
       y \in {NoYear} \cup { YearOf(n) : n \in CitationYears } :
        /\ citationPair' = [citationPair EXCEPT ![i] = Citation(d, y)]
        /\ UNCHANGED <<citeFrame, citeEq>>

\* citationPair[1] == citationPair[2]
CompareCitations ==
    /\ citationPair[1].built
    /\ citationPair[2].built
    /\ citeEq' = [made |-> TRUE, left |-> citationPair[1],
                  right |-> citationPair[2],
                  equal |-> Citation_eq(citationPair[1], citationPair[2])]
    /\ UNCHANGED <<citeFrame, citationPair>>

CiteIdle ==
    /\ citationPair = <<>>
    /\ citeEq = NoComparison

-----------------------------------------------------------------------------
(* crossref_publication.py: get_cociting_ids and get_co_cited_ids on a     *)
(* record P whose edge lists have been read.                                *)

\* the record itself, its possible references, its possible citers, and
\* the publications that may cite a reference or be cited by a citer
TallySelf == "p"
TallyRefs == {"a", "b"}
TallyCiters == {"c"}
TallyOthers == {"p", "x"}

\* defaultdict(int): a key that is absent reads as 0
TallyOf(counts, key) == IF key \in DOMAIN counts THEN counts[key] ELSE 0

\* the record as Publication.__init__ leaves it
FreshTallyRec ==
    [_references |-> <<>>, _citations |-> <<>>,
     _co_citing_counts |-> <<>>, _co_cited_counts |-> <<>>]

InitTally ==
    /\ tallyEnv \in [references : SeqsUpTo(TallyRefs, 2),
                     citations : SeqsUpTo(TallyCiters, 1),
                     citers_of : [TallyRefs -> SUBSET TallyOthers],
                     references_of : [TallyCiters -> SUBSET TallyOthers]]
    /\ tallyRec = FreshTallyRec
    /\ tallyOp = "none"

\* pub.references and pub.citations are read: an empty list is fetched
TallyLoadEdges ==
    /\ tallyRec' = [tallyRec EXCEPT
                      !._references =
                          IF @ = <<>> THEN tallyEnv.references ELSE @,
                      !._citations =
                          IF @ = <<>> THEN tallyEnv.citations ELSE @]
    /\ tallyOp' = "edges"
    /\ UNCHANGED <<tallyFrame, tallyEnv>>

\* CrossRefPublication.get_cociting_ids(): the body is "pass"
GetCocitingIds ==
    /\ tallyOp # "none"
    /\ tallyOp' = "get_cociting_ids"
    /\ UNCHANGED <<tallyFrame, tallyEnv, tallyRec>>

\* CrossRefPublication.get_co_cited_ids(): the body is "pass"
GetCoCitedIds ==
    /\ tallyOp # "none"
    /\ tallyOp' = "get_co_cited_ids"
    /\ UNCHANGED <<tallyFrame, tallyEnv, tallyRec>>

TallyIdle ==
    /\ tallyEnv = <<>>
    /\ tallyRec = FreshTallyRec
    /\ tallyOp = "none"

-----------------------------------------------------------------------------
(* The adapters' remote requests and their time.sleep pauses, as a log.    *)

\* most events followed
MaxEvents == 4

Request(adapter) == [kind |-> "request", adapter |-> adapter]
Pause(adapter) == [kind |-> "pause", adapter |-> adapter]

\* an adapter operation: its name, whether an exception left it
RateOp(op, raised) == [op |-> op, raised |-> raised]

InitRate ==
    /\ rateLog = <<>>
    /\ rateLast = RateOp("none", FALSE)

\* the operation adds its events to the log
Logged(op, raised, events) ==
    /\ Len(rateLog) + Len(events) <= MaxEvents
    /\ rateLog' = rateLog \o events
    /\ rateLast' = RateOp(op, raised)
    /\ UNCHANGED rateFrame

\* CrossRefPublication.search_by_title: time.sleep is the last statement of
\* the try block, so a request that raises goes to the handler unpaused
CrossRefSearchByTitle ==
    \E ok \in BOOLEAN :
        Logged("CrossRefPublication.search_by_title", FALSE,
               IF ok THEN <<Request("crossref"), Pause("crossref")>>
               ELSE <<Request("crossref")>>)

\* CrossRefPublication.metadata: crossref_commons is asked, no pause
CrossRefMetadata ==
    Logged("CrossRefPublication.metadata", FALSE, <<Request("crossref")>>)

\* get_references / get_citations: one OpenCitations request, no pause; a
\* failed request raises
GetEdges ==
    \E op \in {"get_references", "get_citations"}, ok \in BOOLEAN :
        Logged(op, ~ ok, <<Request("crossref")>>)

\* DBLPPublication.search_by_title: one request, no pause on either path
DblpSearchByTitle ==
    Logged("DBLPPublication.search_by_title", FALSE, <<Request("dblp")>>)

\* ScopusPublication.search_by_title: one request, no pause on either path
ScopusSearchByTitle ==
    Logged("ScopusPublication.search_by_title", FALSE, <<Request("scopus")>>)

\* ScopusPublication.download_citation_files: its first statement reads
\* self.citations_folder_, which __init__ never sets (it sets
\* citations_folder), and the AttributeError is not the HTTPError the
\* handler catches: the method raises before its first request and pause
ScopusDownloadCitationFiles ==
    Logged("ScopusPublication.download_citation_files", TRUE, <<>>)

RateIdle ==
    /\ rateLog = <<>>
    /\ rateLast = RateOp("none", FALSE)

-----------------------------------------------------------------------------
(* citation_filtering.py: get_strong_citation_relationship with its store  *)
(* and overwrite arguments, and the file it writes.                         *)

NoFile == [exists |-> FALSE, lines |-> {}]

\* variant of the store step that ignores overwrite and the existing file
store_top_shared_always(file, ids, store, overwrite) ==
    IF store THEN [exists |-> TRUE, lines |-> ids] ELSE file

\* citation_filtering.py:54-65: with store, the file is written (mode 'w',
\* one identifier per line) when overwrite is set or the file is absent
store_top_shared(file, ids, store, overwrite) ==
    IF store /\ (overwrite \/ ~ file.exists)
    THEN [exists |-> TRUE, lines |-> ids]
    ELSE file

NoStoreCall ==
    [made |-> FALSE, shared |-> <<1, 1>>, store |-> FALSE,
     overwrite |-> FALSE, raised |-> FALSE, value |-> {}, before |-> NoFile]

\* a record with or without an EID, its file absent or left by an earlier
\* run, and what OpenCitations holds about it
InitStore ==
    /\ storeEid \in {Empty, "0085012345"}
    /\ top_shared \in
         {NoFile} \cup (IF storeEid = Empty THEN {}
                        ELSE { [exists |-> TRUE, lines |-> {"old"}] })
    /\ storeCall = NoStoreCall
    /\ oRefs \in SeqsUpTo(RefIds, 1)
    /\ oCites \in SeqsUpTo(CiteIds, 1)
    /\ pRefs = <<>>
    /\ pCites = <<>>
    /\ co_citing_counts \in Tallies({"d"})
    /\ co_cited_counts \in Tallies({"d"})
    /\ relCall = NoCall
    /\ relPrev = NoCall

\* get_strong_citation_relationship(publication, shared, store, overwrite):
\* the set is computed first; with store, os.path.join('data', None, ...)
\* raises TypeError for a record without an EID, before any file is touched
CallStrongStore ==
    \E shared \in Shareds, store \in BOOLEAN, overwrite \in BOOLEAN :
        LET value == get_strong_citation_relationship(pRefs, pCites, shared)
            raised == store /\ storeEid = Empty
        IN
        /\ pRefs' = LoadRefs(pRefs)
        /\ pCites' = LoadCites(pCites)
        /\ top_shared' = IF raised THEN top_shared
                         ELSE store_top_shared(top_shared, value, store,
                                               overwrite)
        /\ storeCall' = [made |-> TRUE, shared |-> shared, store |-> store,
                         overwrite |-> overwrite, raised |-> raised,
                         value |-> IF raised THEN {} ELSE value,
                         before |-> top_shared]
        /\ UNCHANGED <<storeFrame, storeEid, oRefs, oCites, co_citing_counts,
                       co_cited_counts, relCall, relPrev>>

StoreIdle ==
    /\ top_shared = NoFile
    /\ storeEid = Empty
    /\ storeCall = NoStoreCall

AuxIdle == DirIdle /\ CiteIdle /\ TallyIdle /\ RateIdle /\ StoreIdle

-----------------------------------------------------------------------------
(* The specifications: each runs one component, the others stay idle. *)

ResolveIdle ==
    /\ seed = [doi |-> Empty, eid |-> Empty, title |-> Empty]
    /\ wDblpSearch = <<>>
    /\ wScopusSearch = <<>>
    /\ wCrossref = <<>>
    /\ wScopus = <<>>
    /\ doi = Empty
    /\ eid = Empty
    /\ title = Empty
    /\ dblp = Empty
    /\ strategies = <<>>
    /\ idx = 1
    /\ calls = <<>>
    /\ lastPub = Pending
    /\ lastOk = FALSE
    /\ result = Pending
    /\ pc = "idle"

RelIdle ==
    /\ oRefs = <<>>
    /\ oCites = <<>>
    /\ pRefs = <<>>
    /\ pCites = <<>>
    /\ co_citing_counts = <<>>
    /\ co_cited_counts = <<>>
    /\ relCall = NoCall
    /\ relPrev = NoCall

Init == InitResolve /\ RelIdle /\ PubIdle /\ MainIdle /\ AuxIdle

Next ==
    \/ SkipStrategy
    \/ StrategyRaises
    \/ StrategyFound
    \/ StrategyFalls
    \/ ReturnNone

Spec == Init /\ [][Next]_vars

InitRelSpec == ResolveIdle /\ InitRel /\ PubIdle /\ MainIdle /\ AuxIdle

NextRel ==
    \/ CallCoCiting
    \/ CallCoCited
    \/ CallStrong

SpecRel == InitRelSpec /\ [][NextRel]_vars

InitPubSpec == ResolveIdle /\ RelIdle /\ InitPub /\ MainIdle /\ AuxIdle

NextPub ==
    \/ NewPublication
    \/ NewCrossRef
    \/ NewScopus
    \/ ReadReferences
    \/ ReadCitations
    \/ FilterCitations
    \/ CachePubMetadata

SpecPub == InitPubSpec /\ [][NextPub]_vars

InitMainSpec == RelIdle /\ InitMain /\ AuxIdle

NextMain ==
    \/ LoadModules
    \/ ReadSeeds
    \/ SeedStep
    \/ SaveRelated
    \/ RelatedStep
    \/ FinishMain

SpecMain == InitMainSpec /\ [][NextMain]_vars

InitDirSpec ==
    /\ ResolveIdle /\ RelIdle /\ PubIdle /\ MainIdle
    /\ InitDir
    /\ CiteIdle
    /\ TallyIdle
    /\ RateIdle
    /\ StoreIdle

NextDir == CreatePubDirectory

SpecDir == InitDirSpec /\ [][NextDir]_vars

InitCiteSpec ==
    /\ ResolveIdle /\ RelIdle /\ PubIdle /\ MainIdle
    /\ DirIdle
    /\ InitCite
    /\ TallyIdle
    /\ RateIdle
    /\ StoreIdle

NextCite ==
    \/ NewCitation
    \/ CompareCitations

SpecCite == InitCiteSpec /\ [][NextCite]_vars

InitTallySpec ==
    /\ ResolveIdle /\ RelIdle /\ PubIdle /\ MainIdle
    /\ DirIdle
    /\ CiteIdle
    /\ InitTally
    /\ RateIdle
    /\ StoreIdle

NextTally ==
    \/ TallyLoadEdges
    \/ GetCocitingIds
    \/ GetCoCitedIds

SpecTally == InitTallySpec /\ [][NextTally]_vars

InitRateSpec ==
    /\ ResolveIdle /\ RelIdle /\ PubIdle /\ MainIdle
    /\ DirIdle
    /\ CiteIdle
    /\ TallyIdle
    /\ InitRate
    /\ StoreIdle

NextRate ==
    \/ CrossRefSearchByTitle
    \/ CrossRefMetadata
    \/ GetEdges
    \/ DblpSearchByTitle
    \/ ScopusSearchByTitle
    \/ ScopusDownloadCitationFiles

SpecRate == InitRateSpec /\ [][NextRate]_vars

InitStoreSpec ==
    /\ ResolveIdle /\ PubIdle /\ MainIdle
    /\ DirIdle /\ CiteIdle /\ TallyIdle /\ RateIdle
    /\ InitStore

NextStore == CallStrongStore

SpecStore == InitStoreSpec /\ [][NextStore]_vars

-----------------------------------------------------------------------------
(* Properties of the resolution engine, checked under Spec. *)

\* a record with an edge in either direction
Usable(r) ==
    /\ r \notin {NoPub, Raised, Pending}
    /\ (r.citation_count > 0 \/ r.reference_count > 0)

\* what the title strategy / the DOI strategy would yield for the seed
TitleWould == find_publication_by_title(seed.title).pub
DoiWould == find_publication_by_doi(seed.doi).pub

\* the strategy an adapter invocation belongs to, by priority
Rank(call) ==
    CASE call[1] \in {"dblp_search", "scopus_search"} -> 1
      [] call[1] = "crossref" -> 2
      [] call[1] = "scopus" -> 3
      [] call[1] = "dblp" -> 4

\* what the world answered to an adapter invocation
Answer(call) ==
    CASE call[1] = "dblp_search" -> Lookup(wDblpSearch, call[2])
      [] call[1] = "scopus_search" -> Lookup(wScopusSearch, call[2])
      [] call[1] = "crossref" -> Lookup(wCrossref, call[2])
      [] call[1] = "scopus" -> Lookup(wScopus, call[2])
      [] call[1] = "dblp" -> NoPub

BothResolve ==
    /\ seed.title # Empty
    /\ seed.doi # Empty
    /\ Usable(TitleWould)
    /\ Usable(DoiWould)
    /\ TitleWould # DoiWould

C2_ValidityPredicate ==
    lastPub \notin {Pending, NoPub} =>
        (lastOk <=> (lastPub.metadata /\
                     (lastPub.citation_count > 0 \/ lastPub.reference_count > 0)))

Adapters(name) ==
    CASE name = "title" -> {"dblp_search", "scopus_search"}
      [] name = "doi" -> {"crossref"}
      [] name = "eid" -> {"scopus"}
      [] name = "dblp" -> {"dblp"}

SeedValue(name) ==
    CASE name = "title" -> seed.title
      [] name = "doi" -> seed.doi
      [] name = "eid" -> seed.eid
      [] name = "dblp" -> Empty

Attempted(name) ==
    \E i \in 1..Len(calls) : calls[i][1] \in Adapters(name)

\* C4: when no record obtained for the seed has a citation or a reference,
\* create_publication returns None, after attempting every strategy whose
\* identifier is non-empty and without invoking an adapter of a strategy
\* whose identifier is empty.
C4_Exhaustion ==
    (pc = "done" /\ \A i \in 1..Len(calls) : ~ Usable(Answer(calls[i]))) =>
        /\ result = NoPub
        /\ \A name \in {"title", "doi", "eid", "dblp"} :
               Attempted(name) <=> SeedValue(name) # Empty

\* C5: an identifier taken from a record that failed the validity check is
\* looked up by the strategy of its kind before resolution gives up.
C5_HarvestedIdentifierUsed ==
    (pc = "done" /\ result = NoPub) =>
        /\ doi # seed.doi =>
               \E i \in 1..Len(calls) : calls[i] = <<"crossref", doi>>
        /\ eid # seed.eid =>
               \E i \in 1..Len(calls) : calls[i] = <<"scopus", eid>>
        /\ dblp # Empty =>
               \E i \in 1..Len(calls) : calls[i] = <<"dblp", dblp>>

\* C6: no exception leaves create_publication: it ends by returning a
\* record or None.
C6_FailureIsolation ==
    pc = "done" => result # Raised

-----------------------------------------------------------------------------
(* Properties of the citation relationship engine, checked under SpecRel. *)

\* shared1 <= shared2, as fractions
FracLeq(s1, s2) == s1[1] * s2[2] <= s2[1] * s1[2]

C8_MonotonicThreshold ==
    (relCall.op \in {"co_citing", "co_cited"} /\ relPrev.op = relCall.op) =>
        /\ FracLeq(relPrev.shared, relCall.shared) =>
               relCall.value \subseteq relPrev.value
        /\ FracLeq(relCall.shared, relPrev.shared) =>
               relPrev.value \subseteq relCall.value

C8_Witness ==
    /\ relCall.op = "co_citing"
    /\ relPrev.op = "co_citing"
    /\ relPrev.shared = <<1, 10>>
    /\ relCall.shared = <<1, 1>>
    /\ relCall.value # relPrev.value
    /\ relCall.value # {}

\* tally >= ceil(count * num / den), without computing the ceiling
AtLeastShare(tally, count, shared) ==
    tally * shared[2] >= count * shared[1]

-----------------------------------------------------------------------------
(* Properties of one record, checked under SpecPub. *)

Constructors == {"Publication", "CrossRefPublication", "ScopusPublication"}

\* C11: when a CrossRef record is built for the identifier of the record
\* loaded just before it, the construction issues no remote request and
\* the record carries the same metadata (title, year) as that first load.
C11_CacheRoundTrip ==
    (/\ pubOp.op = "CrossRefPublication"
     /\ ~ pubOp.raised
     /\ firstLoad.metadata # "None"
     /\ firstLoad.id = PubId(pubRec)) =>
        /\ pubOp.requests = 0
        /\ pubRec._metadata = firstLoad.metadata

\* C12: over the accesses to references, reference_count, citations and
\* citation_count of one record, its references are fetched at most once
\* and its citations are fetched at most once.
C12_FetchedAtMostOnce ==
    /\ fetches.references <= 1
    /\ fetches.citations <= 1

\* C14: filter_citations(min_year, max_year) ends normally and leaves a
\* citation list in which every citation has a year within the bounds.
C14_FilterKeepsYearsInRange ==
    pubOp.op = "filter_citations" =>
        /\ ~ pubOp.raised
        /\ \A i \in 1..Len(pubRec.citations_) :
               InYears(pubRec.citations_[i], pubOp.min_year, pubOp.max_year)

\* C16: once the publication summary file exists, its first row is the
\* header and every later row is a data row.
C16_HeaderOnceAndFirst ==
    pubsCsv.exists =>
        /\ Len(pubsCsv.rows) >= 1
        /\ pubsCsv.rows[1] = "header"
        /\ \A i \in 2..Len(pubsCsv.rows) : pubsCsv.rows[i] = "row"

\* C20: a record that exists has a non-empty DOI or a non-empty EID, and a
\* constructor called with neither raises and produces no record.
C20_IdentityInvariant ==
    /\ pubRec.kind # "none" =>
           (pubRec._doi # Empty \/ pubRec._eid # Empty)
    /\ (pubOp.op \in Constructors /\ pubOp.doi = Empty /\ pubOp.eid = Empty) =>
           (pubOp.raised /\ pubRec.kind = "none")

C20_Witness ==
    /\ pubOp.op = "Publication"
    /\ pubOp.doi = Empty
    /\ pubOp.eid = Empty
    /\ pubOp.raised
    /\ pubRec = NoRecord
    /\ firstLoad.id = "0085012345"

-----------------------------------------------------------------------------
(* Properties of a run of run.py, checked under SpecMain. *)

\* the run has gone past read_seed_csv
SeedsWereRead == phase \notin {"idle", "start", "failed", "loaded"}

FieldOrEmpty(header, row, column) ==
    Strip(RowGet(header, row, column).text)

\* the tuples of the rows with a non-empty identifying field, in file order
RetainedRows(file) ==
    LET tuples == [i \in 1..Len(file.rows) |->
                     SeedTuple(FieldOrEmpty(file.header, file.rows[i], "DOI"),
                               FieldOrEmpty(file.header, file.rows[i], "EID"),
                               FieldOrEmpty(file.header, file.rows[i], "Title"))]
    IN  SelectSeq(tuples, LAMBDA t : t.doi # "" \/ t.eid # "" \/ t.title # "")

\* C15: read_seed_csv returns without an error, in file order, the tuple of
\* every row with a non-empty DOI, EID or Title after stripping, a missing
\* field being read as empty, and no other tuple.
C15_SeedReading ==
    (SeedsWereRead /\ seedsFile.exists) =>
        /\ phase # "read_raised"
        /\ seeds = RetainedRows(seedsFile)

\* C17: once save_related_ids_csv has run, the related-IDs file holds
\* exactly one line per related identifier, whatever it held before.
C17_RelatedIdsOverwritten ==
    phase \in {"related", "done"} =>
        relatedFile = [exists |-> TRUE, lines |-> all_related_ids]

C17_Witness ==
    /\ phase = "related"
    /\ before.related = [exists |-> TRUE, lines |-> {"doi:10.1234/old"}]
    /\ all_related_ids = {"doi:10.1234/x", "doi:10.1234/z"}
    /\ relatedFile.lines = all_related_ids

\* C18: when the seed file does not exist, the run leaves the related-IDs
\* file and the publication summary file as it found them.
C18_MissingInputLeavesOutputs ==
    (SeedsWereRead /\ ~ seedsFile.exists) =>
        /\ relatedFile = before.related
        /\ pubsCsv = before.pubs

\* C19: with the OpenCitations key or the Scopus key unset or empty, the
\* run ends at load time: no seed is read, no request is issued and no
\* output file is written.
C19_MissingKeyIsFatal ==
    (\/ getenv(envKeys.OPENCITATIONS_API_KEY) = ""
     \/ getenv(envKeys.SCOPUS_API_KEY) = "") =>
        /\ phase \in {"start", "failed"}
        /\ seeds = <<>>
        /\ \A d \in DOMAIN metaRequests : metaRequests[d] = 0
        /\ relatedFile = before.related
        /\ pubsCsv = before.pubs

C19_Witness ==
    /\ phase = "failed"
    /\ envKeys = [OPENCITATIONS_API_KEY |-> "key", SCOPUS_API_KEY |-> "unset"]
    /\ seedsFile.exists
    /\ Len(seedsFile.rows) = MaxSeedRows
    /\ before.related.exists

-----------------------------------------------------------------------------
(* More properties of one record, checked under SpecPub. *)

\* the accessors that read an edge list
EdgeReads == {"references", "citations", "reference_count", "citation_count"}

\* C21: whatever the remote service answers, an edge list of a record is a
\* sequence (never None) and reading it or its count does not raise.
C21_EdgeFetchYieldsSequence ==
    /\ pubOp.op \in EdgeReads => ~ pubOp.raised
    /\ pubRec.kind # "none" =>
           (~ pubRec._references.none /\ ~ pubRec._citations.none)

-----------------------------------------------------------------------------
(* Properties of the cache directories, checked under SpecDir. *)

\* C22: the directory made for a record is its data folder joined with one
\* segment that has no '/' and is the whole identifier with each '/'
\* replaced: as long as the identifier, and equal to it at every other
\* character.
C22_CacheKeyKeepsWholeIdentifier ==
    \A i \in 1..2 :
        pubDirs[i].made =>
            /\ pubDirs[i].data_folder = "data"
            /\ \A k \in 1..Len(pubDirs[i].safe_id) : pubDirs[i].safe_id[k] # "/"
            /\ Len(pubDirs[i].safe_id) = Len(dirIds[i])
            /\ \A k \in 1..Len(dirIds[i]) :
                   dirIds[i][k] # "/" => pubDirs[i].safe_id[k] = dirIds[i][k]

\* C29: two records with different identifiers never get the same
\* directory.
C29_NoDirectoryCollision ==
    (pubDirs[1].made /\ pubDirs[2].made /\ dirIds[1] # dirIds[2]) =>
        pubDirs[1] # pubDirs[2]

-----------------------------------------------------------------------------
(* Properties of the Citation edges, checked under SpecCite. *)

\* C23: two Citation edges with the same target identifier compare equal,
\* whatever their years.
C23_EqualityByIdentifier ==
    (citeEq.made /\ citeEq.left.doi = citeEq.right.doi) => citeEq.equal

-----------------------------------------------------------------------------
(* Properties of the co-citation tallies, checked under SpecTally. *)

\* the neighbours of P among edges whose own edge set holds the key
SharedNeighbours(edges, held, key) ==
    { n \in Range(edges) : key \in held[n] }

\* C24: after the co-citing computation on P, the tally of every X other
\* than P is the number of P's references that X cites, P is no key, and
\* no tally is negative or above P's reference count; the same for the
\* co-cited tallies, with each citer's reference list and the citation count.
C24_TalliesCountSharedNeighbours ==
    /\ tallyOp = "get_cociting_ids" =>
         /\ \A x \in TallyOthers \ {TallySelf} :
               TallyOf(tallyRec._co_citing_counts, x) =
                 Cardinality(SharedNeighbours(tallyRec._references,
                                              tallyEnv.citers_of, x))
         /\ TallySelf \notin DOMAIN tallyRec._co_citing_counts
         /\ \A x \in DOMAIN tallyRec._co_citing_counts :
               /\ tallyRec._co_citing_counts[x] >= 0
               /\ tallyRec._co_citing_counts[x] <= Len(tallyRec._references)
    /\ tallyOp = "get_co_cited_ids" =>
         /\ \A x \in TallyOthers \ {TallySelf} :
               TallyOf(tallyRec._co_cited_counts, x) =
                 Cardinality(SharedNeighbours(tallyRec._citations,
                                              tallyEnv.references_of, x))
         /\ TallySelf \notin DOMAIN tallyRec._co_cited_counts
         /\ \A x \in DOMAIN tallyRec._co_cited_counts :
               /\ tallyRec._co_cited_counts[x] >= 0
               /\ tallyRec._co_cited_counts[x] <= Len(tallyRec._citations)

-----------------------------------------------------------------------------
(* Properties of the request log, checked under SpecRate. *)

\* C25: between two requests of one adapter there is a pause: no adapter
\* issues a request while its previous request has not been followed by one.
C25_PauseBetweenRequests ==
    \A i, j \in 1..Len(rateLog) :
        (/\ i < j
         /\ rateLog[i].kind = "request"
         /\ rateLog[j].kind = "request"
         /\ rateLog[i].adapter = rateLog[j].adapter) =>
            \E k \in (i + 1)..(j - 1) : rateLog[k].kind = "pause"

-----------------------------------------------------------------------------
(* A further property of the resolution engine, checked under Spec. *)

\* what find_publication_by_title returns for the seed's title
TitleReturn == find_publication_by_title(seed.title)

\* C26: once the title search has run, what it returns is a record with a
\* positive citation or reference count (or nothing), and a DBLP hit
\* without one is followed by the Scopus title search.
C26_TitleSearchReturnsValid ==
    (Len(calls) >= 1 /\ calls[1][1] = "dblp_search") =>
        /\ TitleReturn.pub \notin {NoPub, Raised} =>
               has_citations(TitleReturn.pub)
        /\ (/\ Lookup(wDblpSearch, seed.title) \notin {NoPub, Raised}
            /\ ~ has_citations(Lookup(wDblpSearch, seed.title))) =>
               (Len(calls) >= 2 /\ calls[2][1] = "scopus_search")

-----------------------------------------------------------------------------
(* A further property of a run of run.py, checked under SpecMain. *)

\* what create_publication returns for the k-th seed
SeedPub(k) == create_publication(seeds[k].doi, seeds[k].eid, seeds[k].title).pub

\* the seeds among the first n that resolved to a record
ResolvedAmong(n) == { k \in 1..n : SeedPub(k) \notin {NoPub, Raised} }

\* the references and citations of the seeds among the first n that resolved
EdgesAmong(n) ==
    UNION { Range(SeedPub(k).references) \cup Range(SeedPub(k).citations) :
              k \in ResolvedAmong(n) }

\* C27: every seed is processed in input order, whatever became of the
\* seeds before it; the related identifiers are the union of the references
\* and citations of the seeds that resolved, one summary row is written
\* per resolved seed and none for the others, and that union is what the
\* related-IDs file holds at the end.
C27_AggregatesResolvedSeeds ==
    /\ phase # "main_raised"
    /\ phase = "seeds" =>
         /\ all_related_ids = EdgesAmong(seedIdx - 1)
         /\ Len(pubsCsv.rows) =
              Len(before.pubs.rows) + Cardinality(ResolvedAmong(seedIdx - 1))
    /\ phase \in {"related", "done"} =>
         relatedFile.lines = EdgesAmong(Len(seeds))

-----------------------------------------------------------------------------
(* Properties of the stored relationships, checked under SpecStore. *)

\* C28: the file changes only in a call with store set and either
\* overwrite set or no file there, and then it holds the returned set;
\* without store the file is as before; with store, without overwrite and
\* with a file there, the file is as before and the call returns the set
\* it returns in the other cases.
C28_StoreOnlyWhenAsked ==
    storeCall.made =>
        /\ top_shared # storeCall.before =>
             /\ storeCall.store
             /\ storeCall.overwrite \/ ~ storeCall.before.exists
             /\ top_shared = [exists |-> TRUE, lines |-> storeCall.value]
        /\ ~ storeCall.store => top_shared = storeCall.before
        /\ (/\ storeCall.store
            /\ ~ storeCall.overwrite
            /\ storeCall.before.exists) =>
             /\ top_shared = storeCall.before
             /\ ~ storeCall.raised
             /\ storeCall.value =
                  get_strong_citation_relationship(pRefs, pCites,
                                                   storeCall.shared)

C28_Witness ==
    /\ storeCall.made
    /\ storeCall.store
    /\ ~ storeCall.overwrite
    /\ storeCall.before = [exists |-> TRUE, lines |-> {"old"}]
    /\ top_shared = storeCall.before
    /\ storeCall.value = {"a", "c", "d"}

-----------------------------------------------------------------------------
(* A further property of one record, checked under SpecPub. *)

\* C30: filter_citations ends normally and leaves a citation list that a
\* second application with the same bounds leaves as it is and that is no
\* longer than the list before; the call changes neither the identifiers
\* of the record nor its reference and citation edges.
C30_FilterIdempotentAndFramed ==
    /\ [](pubOp.op = "filter_citations" =>
            /\ ~ pubOp.raised
            /\ filtered_citations(pubRec.citations_, pubOp.min_year,
                                  pubOp.max_year) = pubRec.citations_)
    /\ [][FilterCitations =>
            /\ Len(pubRec.citations_') <= Len(pubRec.citations_)
            /\ pubRec._doi' = pubRec._doi
            /\ pubRec._eid' = pubRec._eid
            /\ pubRec._references' = pubRec._references
            /\ pubRec._citations' = pubRec._citations]_vars

=============================================================================
